---- MODULE Spec2Model ----
(***************************************************************************)
(* StoryFlow: the view/state controller of src/App.tsx and the generation  *)
(* client of src/services/geminiService.ts as one state machine.           *)
(*                                                                         *)
(* React state (useState) is one variable per hook.  An event handler runs *)
(* to completion in one step; the part of an async handler after its await *)
(* is a separate step (the settle actions) that uses the values the        *)
(* handler's closure captured when the request was submitted.  Text is     *)
(* modelled by named strings; an error message is a sequence of words.     *)
(***************************************************************************)
EXTENDS Integers, Sequences, FiniteSets, TLC

VARIABLES
    appState,         \* App.tsx:67
    user,             \* App.tsx:68   NULL or the signed-in e-mail
    googleClientId,   \* App.tsx:71
    showClientConfig, \* App.tsx:74
    loginError,       \* App.tsx:75
    topic,            \* App.tsx:78
    customDialogue,   \* App.tsx:79
    duration,         \* App.tsx:80
    storyDraft,       \* App.tsx:81
    scenes,           \* App.tsx:82
    error,            \* App.tsx:83
    allowVariations,  \* App.tsx:84
    adminPassword,    \* App.tsx:87
    adminError,       \* App.tsx:88
    userDb,           \* App.tsx:89
    API_KEY,          \* process.env.API_KEY
    aiClient,         \* geminiService.ts:7  NULL or the key the client was built with
    calls,            \* the generation promises not settled yet
    timers,           \* pending setTimeout callbacks of handleDemoLogin
    gsi,              \* Google sign-in: initialised flag and pending responses
    issued,           \* number of generation requests submitted so far
    returned,         \* history: the values successful scenes calls returned
    drafted,          \* history: the target scene count of the draft request that
                      \* produced the draft, 0 when no request produced it
    last              \* history: the last step taken

sessionVars == <<topic, customDialogue, duration, storyDraft, scenes, error, allowVariations>>
loginVars   == <<googleClientId, showClientConfig, loginError, gsi, timers>>
adminVars   == <<adminPassword, adminError>>
serviceVars == <<API_KEY, aiClient>>
vars == <<appState, user, sessionVars, loginVars, adminVars, userDb, serviceVars,
          calls, issued, returned, drafted, last>>

-----------------------------------------------------------------------------
(* Bounds of the model *)

MaxCalls  == 2   \* generation requests submitted in one behaviour
MaxTimers == 1   \* sign-in callbacks pending at once

-----------------------------------------------------------------------------
(* types.ts *)

AppStates == {"LOGIN", "INPUT", "GENERATING_STORY", "STORY_REVIEW",
              "GENERATING_SCENES", "RESULTS", "ADMIN_LOGIN", "ADMIN_DASHBOARD"}

NULL == "null"

Scene(n, appearance) ==
    [scene_number |-> n, duration_seconds |-> 10, character_appearance |-> appearance]

\* A decoded JSON value: an array of items, or something that is no array.
JsonArray(items) == [isArray |-> TRUE, items |-> items]
JsonObject == [isArray |-> FALSE, items |-> <<>>]

\* value.length as JavaScript evaluates it: undefined (here -1) on a non-array.
Undefined == -1
LengthOf(value) == IF value.isArray THEN Len(value.items) ELSE Undefined

-----------------------------------------------------------------------------
(* App.tsx: constants *)

UserStats(id, email, stories, total, lastActive) ==
    [id |-> id, email |-> email, storiesGenerated |-> stories,
     totalScenesGenerated |-> total, lastActive |-> lastActive]

INITIAL_MOCK_DB ==
    << UserStats("1", "alice@studio.com", 42, 520, "2023-10-24 14:30"),
       UserStats("2", "bob@creative.net", 15, 180, "2023-10-25 09:15"),
       UserStats("3", "charlie@video.io", 8, 96, "2023-10-26 11:00"),
       UserStats("4", "demo.user@gmail.com", 0, 0, "Now") >>

MOCK_USER == "demo.user@gmail.com"

AdminAccessCode == "Veo816209"

-----------------------------------------------------------------------------
(* Text.  A user-typed or generated text is a named string; trim() is       *)
(* modelled on the texts of the model.  An error message is a sequence of  *)
(* words, and message.includes(s) asks whether s is one of its words.      *)

Whitespace == {"", " ", " \n "}

TrimNothing(s) == s

\* String.prototype.trim() on the texts of the model.
Trim(s) == IF s \in Whitespace THEN "" ELSE s

\* JavaScript truthiness of a string.
Truthy(s) == s /= ""

ToLowerCase(w) ==
    CASE w = "Quota"      -> "quota"
      [] w = "RESOURCE_EXHAUSTED" -> "resource_exhausted"
      [] w = "Overloaded" -> "overloaded"
      [] w = "Failed to fetch" -> "failed to fetch"
      [] w = "NetworkError" -> "networkerror"
      [] w = "SAFETY"     -> "safety"
      [] w = "Blocked"    -> "blocked"
      [] w = "JSON"       -> "json"
      [] OTHER            -> w

\* The words of which s is a substring.
Containing(s) ==
    CASE s = "exhausted" -> {"exhausted", "resource_exhausted"}
      [] s = "fetch"     -> {"fetch", "failed to fetch"}
      [] s = "network"   -> {"network", "networkerror"}
      [] s = "API Key is missing" -> {"API Key is missing"}
      [] OTHER           -> {s}

Includes(message, s) == \E i \in 1..Len(message) : message[i] \in Containing(s)

LowerIncludes(message, s) ==
    \E i \in 1..Len(message) : ToLowerCase(message[i]) \in Containing(s)

MaxShown == 150

Slice(message, n) == SubSeq(message, 1, IF Len(message) < n THEN Len(message) ELSE n)

-----------------------------------------------------------------------------
(* App.tsx:23-64  getFriendlyErrorMessage *)

Friendly(category, detail) == [category |-> category, detail |-> detail]

NoError == Friendly("null", <<>>)

ServiceUnavailableBeforeQuota(message) ==
    IF Includes(message, "API Key is missing")
    THEN Friendly("Configuration Error", <<>>)
    ELSE IF Includes(message, "500") \/ Includes(message, "503")
            \/ LowerIncludes(message, "overloaded")
    THEN Friendly("Service Unavailable", <<>>)
    ELSE IF Includes(message, "429") \/ LowerIncludes(message, "quota")
            \/ LowerIncludes(message, "exhausted")
    THEN Friendly("Usage Limit Exceeded", <<>>)
    ELSE IF Includes(message, "400") \/ Includes(message, "403")
            \/ Includes(message, "API key not valid")
    THEN Friendly("Authentication Error", <<>>)
    ELSE IF LowerIncludes(message, "fetch") \/ LowerIncludes(message, "network")
            \/ LowerIncludes(message, "failed to connect")
    THEN Friendly("Connection Error", <<>>)
    ELSE IF Includes(message, "JSON") \/ Includes(message, "SyntaxError")
            \/ Includes(message, "Unexpected token")
    THEN Friendly("Data Processing Error", <<>>)
    ELSE IF LowerIncludes(message, "safety") \/ LowerIncludes(message, "blocked")
            \/ Includes(message, "candidate")
    THEN Friendly("Content Blocked", <<>>)
    ELSE Friendly("An unexpected error occurred",
                  Slice(message, MaxShown)
                    \o (IF Len(message) > MaxShown THEN <<"...">> ELSE <<>>))

getFriendlyErrorMessage(message) ==
    IF Includes(message, "API Key is missing")
    THEN Friendly("Configuration Error", <<>>)
    ELSE IF Includes(message, "429") \/ LowerIncludes(message, "quota")
            \/ LowerIncludes(message, "exhausted")
    THEN Friendly("Usage Limit Exceeded", <<>>)
    ELSE IF Includes(message, "400") \/ Includes(message, "403")
            \/ Includes(message, "API key not valid")
    THEN Friendly("Authentication Error", <<>>)
    ELSE IF Includes(message, "500") \/ Includes(message, "503")
            \/ LowerIncludes(message, "overloaded")
    THEN Friendly("Service Unavailable", <<>>)
    ELSE IF LowerIncludes(message, "fetch") \/ LowerIncludes(message, "network")
            \/ LowerIncludes(message, "failed to connect")
    THEN Friendly("Connection Error", <<>>)
    ELSE IF Includes(message, "JSON") \/ Includes(message, "SyntaxError")
            \/ Includes(message, "Unexpected token")
    THEN Friendly("Data Processing Error", <<>>)
    ELSE IF LowerIncludes(message, "safety") \/ LowerIncludes(message, "blocked")
            \/ Includes(message, "candidate")
    THEN Friendly("Content Blocked", <<>>)
    ELSE Friendly("An unexpected error occurred",
                  Slice(message, MaxShown)
                    \o (IF Len(message) > MaxShown THEN <<"...">> ELSE <<>>))

-----------------------------------------------------------------------------
(* geminiService.ts *)

\* What a service function hands to its caller: a value or a thrown error.
Returned(value) == [ok |-> TRUE, value |-> value, message |-> <<>>]
Thrown(message) == [ok |-> FALSE, value |-> JsonObject, message |-> message]

\* What the endpoint answers one generateContent call with: response.text (a
\* string for the draft, a sequence of tokens for the scenes; no text is the
\* empty one), or a rejection.
Answer(text)    == [rejected |-> FALSE, text |-> text, message |-> <<>>]
Reject(message) == [rejected |-> TRUE, text |-> <<>>, message |-> message]

\* geminiService.ts:22-24
getApiKey == API_KEY

\* geminiService.ts:9-20  the key of the client getAiClient returns
getAiClient == IF aiClient /= NULL THEN aiClient ELSE API_KEY

Max(a, b) == IF a > b THEN a ELSE b

\* A number of minutes is counted in quarters of a minute: the number input of
\* App.tsx:552 stores Number(e.target.value), which need not be whole.
Minute == 4

\* Math.round(n / d): the nearest integer, a half rounded up
Round(n, d) == (2 * n + d) \div (2 * d)

FiveScenesAMinute(durationMinutes) == Max(1, Round(durationMinutes * 5, Minute))

\* geminiService.ts:34 and :76  Math.max(1, Math.round(durationMinutes * 6))
targetSceneCount(durationMinutes) == Max(1, Round(durationMinutes * 6, Minute))

\* What JSON.parse makes of a number literal beyond the range of a double
\* (1e999, or an integer of 400 digits): the number Infinity, here -2.
Infinity == -2

\* The JSON value null where a number is expected, here -3.
JsonNull == -3

\* The texts the endpoint sends are sequences of tokens; a scene object is
\* one token.
SceneOf(token) ==
    CASE token = "{1,A}" -> Scene(1, "A")
      [] token = "{2,A}" -> Scene(2, "A")
      [] token = "{2,B}" -> Scene(2, "B")
      [] token = "{1e999,A}" -> Scene(Infinity, "A")
      [] token = "{null,A}"  -> Scene(JsonNull, "A")

SceneTokens == {"{1,A}", "{2,A}", "{2,B}", "{1e999,A}", "{null,A}"}

\* The items between the brackets of a JSON array: objects separated by commas.
RECURSIVE WellFormedItems(_)
WellFormedItems(toks) ==
    \/ Len(toks) = 1 /\ toks[1] \in SceneTokens
    \/ /\ Len(toks) >= 3
       /\ toks[1] \in SceneTokens
       /\ toks[2] = ","
       /\ WellFormedItems(SubSeq(toks, 3, Len(toks)))

RECURSIVE DecodeItems(_)
DecodeItems(toks) ==
    IF Len(toks) = 0 THEN <<>>
    ELSE IF Len(toks) = 1 THEN <<SceneOf(toks[1])>>
    ELSE <<SceneOf(toks[1])>> \o DecodeItems(SubSeq(toks, 3, Len(toks)))

IsJson(text) ==
    \/ text = <<"{", "}">>
    \/ /\ Len(text) >= 2
       /\ text[1] = "["
       /\ text[Len(text)] = "]"
       /\ \/ Len(text) = 2
          \/ WellFormedItems(SubSeq(text, 2, Len(text) - 1))

\* JSON.parse(text): the decoded value, or the SyntaxError it throws, whose
\* message quotes the token it stopped at.
JSONparse(text) ==
    IF ~IsJson(text)
    THEN Thrown(<<"Unexpected token", text[1], "is not valid", "JSON">>)
    ELSE IF text[1] = "{" THEN Returned(JsonObject)
    ELSE Returned(JsonArray(DecodeItems(SubSeq(text, 2, Len(text) - 1))))

\* App.tsx:219  JSON.stringify writes a number that is not finite as null
StringifyNumber(n) == IF n = Infinity THEN JsonNull ELSE n

\* App.tsx:219  JSON.stringify of one scene object
TokenOf(scene) ==
    LET written == [scene EXCEPT !.scene_number = StringifyNumber(@)] IN
    CASE written = Scene(1, "A") -> "{1,A}"
      [] written = Scene(2, "A") -> "{2,A}"
      [] written = Scene(2, "B") -> "{2,B}"
      [] written = Scene(JsonNull, "A") -> "{null,A}"

RECURSIVE EncodeItems(_)
EncodeItems(items) ==
    IF Len(items) = 0 THEN <<>>
    ELSE IF Len(items) = 1 THEN <<TokenOf(items[1])>>
    ELSE <<TokenOf(items[1]), ",">> \o EncodeItems(Tail(items))

\* App.tsx:219  JSON.stringify(scenes, null, 2); the indentation is no token
JSONstringify(value) ==
    IF value.isArray THEN <<"[">> \o EncodeItems(value.items) \o <<"]">>
    ELSE <<"{", "}">>

MissingKeyMessageReworded == <<"No credential is configured">>

\* geminiService.ts:29 and :71
MissingKeyMessage == <<"API Key is missing", "Please check your environment configuration.">>

DraftResultUnchecked(answer) ==
    IF answer.rejected THEN Thrown(answer.message) ELSE Returned(answer.text)

\* geminiService.ts:48-65  the draft request once the endpoint has answered
DraftResult(answer) ==
    IF answer.rejected THEN Thrown(answer.message)
    ELSE IF ~Truthy(answer.text) THEN Thrown(<<"No story generated from Gemini.">>)
    ELSE Returned(answer.text)

\* geminiService.ts:110-156  the scenes request once the endpoint has answered
ScenesResult(answer) ==
    IF answer.rejected THEN Thrown(answer.message)
    ELSE IF answer.text = <<>> THEN Thrown(<<"No response generated from Gemini.">>)
    ELSE JSONparse(answer.text)


-----------------------------------------------------------------------------
(* Inputs: what the user can type and what the endpoint can answer *)

Topics     == {"", "A lighthouse keeper finds a message in a bottle"}
Dialogues  == {"", "Who is there?"}
Durations  == {Minute, 2 * Minute}
DraftEdits == {"", "edited story"}
Passwords  == {AdminAccessCode, "letmein"}
ClientIds  == {"", "782.apps.googleusercontent.com"}
GoogleEmails == {"alice@studio.com", "new.user@gmail.com"}
ApiKeys    == {"", "key-1"}

ProviderErrors == { <<"429", "RESOURCE_EXHAUSTED", "Quota", "exceeded">>,
                    <<"The model is", "Overloaded", "503">> }

DraftAnswers ==
    {Answer(t) : t \in {"", "story A"}} \cup {Reject(m) : m \in ProviderErrors}

ScenesTexts == { <<>>,
                 <<"[", "]">>,
                 <<"[", "{1,A}", ",", "{2,A}", "]">>,
                 <<"{", "}">>,
                 <<"Here", "are", "your", "scenes">> }

ScenesAnswers ==
    {Answer(t) : t \in ScenesTexts} \cup {Reject(m) : m \in ProviderErrors}

-----------------------------------------------------------------------------
(* History *)

\* The last step: what was done, whether a settled request succeeded, the text
\* or the value it returned, and the message of the error it threw.
Event(op, ok, text, value, message) ==
    [op |-> op, ok |-> ok, text |-> text, value |-> value, message |-> message]

Step(op) == Event(op, TRUE, "", JsonObject, <<>>)

-----------------------------------------------------------------------------
(* Views: which controls the render of App.tsx:272-688 puts on the page *)

\* App.tsx:471
isGenerating == appState \in {"GENERATING_STORY", "GENERATING_SCENES"}

\* App.tsx:272, 347, 375: these views return before the main view
MainView == appState \notin {"LOGIN", "ADMIN_LOGIN", "ADMIN_DASHBOARD"}

\* App.tsx:673  scenes.map throws in the render of the results when the
\* value stored is no array; nothing is on the page after that.
Crashed == appState = "RESULTS" /\ ~scenes.isArray

InputViewShownInReview ==
    appState \in {"INPUT", "GENERATING_STORY", "STORY_REVIEW"}

\* App.tsx:504
InputView == appState \in {"INPUT", "GENERATING_STORY"}

\* App.tsx:581
ReviewView == appState \in {"STORY_REVIEW", "GENERATING_SCENES"}

\* components/Button: a button that shows its loading state takes no click
ButtonTakesClick(isLoading, disabled) == ~isLoading /\ ~disabled

\* App.tsx:559-567
DraftButton ==
    /\ InputView
    /\ ButtonTakesClick(appState = "GENERATING_STORY", Trim(topic) = "" \/ duration < Minute)

\* App.tsx:626-634
ScenesButton ==
    /\ ReviewView
    /\ ButtonTakesClick(appState = "GENERATING_SCENES", Trim(storyDraft) = "")

\* App.tsx:488-494
SignOutButton == MainView /\ user /= NULL

-----------------------------------------------------------------------------
(* App.tsx:145-157  updateUserActivity *)

addUserActivity(db, email, length) ==
    IF \E i \in DOMAIN db : db[i].email = email THEN db
    ELSE Append(db, UserStats("new", email, 0, 0, "Just now"))

updateUserActivity(db, email, length) ==
    LET scenesCount == IF length = Undefined THEN 0 ELSE length IN
    [i \in DOMAIN db |->
        IF db[i].email = email
        THEN [db[i] EXCEPT
                !.lastActive = "Just now",
                !.storiesGenerated = IF scenesCount > 0 THEN @ + 1 ELSE @,
                !.totalScenesGenerated = @ + scenesCount]
        ELSE db[i]]

-----------------------------------------------------------------------------
Init ==
    /\ appState = "LOGIN"
    /\ user = NULL
    /\ googleClientId = ""
    /\ showClientConfig = FALSE
    /\ loginError = NULL
    /\ topic = ""
    /\ customDialogue = ""
    /\ duration = Minute
    /\ storyDraft = ""
    /\ scenes = JsonArray(<<>>)
    /\ error = NoError
    /\ allowVariations = FALSE
    /\ adminPassword = ""
    /\ adminError = ""
    /\ userDb = INITIAL_MOCK_DB
    /\ API_KEY \in ApiKeys
    /\ aiClient = NULL
    /\ calls = {}
    /\ timers = 0
    /\ gsi = [initialized |-> FALSE, pending |-> 0]
    /\ issued = 0
    /\ returned = {}
    /\ drafted = 0
    /\ last = Step("init")

\* geminiService.ts:28-30, 70-72  the rejection of a request that was never sent
\* reaches the handler's catch before any other event is handled
MicrotaskPending == \E c \in calls : ~c.sent

\* An event is handled when the page is still rendered and no microtask waits.
Ready == ~MicrotaskPending /\ ~Crashed

-----------------------------------------------------------------------------
(* App.tsx:91-143  signing in *)

\* App.tsx:295
ConfigureClientId ==
    /\ Ready
    /\ appState = "LOGIN"
    /\ ~Truthy(googleClientId)
    /\ showClientConfig' = TRUE
    /\ last' = Step("other")
    /\ UNCHANGED <<appState, user, sessionVars, googleClientId, loginError, gsi, timers,
                   adminVars, userDb, serviceVars, calls, issued, returned, drafted>>

\* App.tsx:313-321
SetGoogleClientId(v) ==
    /\ Ready
    /\ appState = "LOGIN"
    /\ showClientConfig /\ ~Truthy(googleClientId)
    /\ googleClientId' = v
    /\ last' = Step("other")
    /\ UNCHANGED <<appState, user, sessionVars, showClientConfig, loginError, gsi, timers,
                   adminVars, userDb, serviceVars, calls, issued, returned, drafted>>

\* App.tsx:93-116  the effect that sets up Google sign-in; initialize may throw
GsiInitialize(ok) ==
    /\ Ready
    /\ appState = "LOGIN"
    /\ Truthy(googleClientId)
    /\ ~gsi.initialized
    /\ IF ok
       THEN gsi' = [gsi EXCEPT !.initialized = TRUE] /\ UNCHANGED loginError
       ELSE loginError' = "Failed to initialize Google Sign-In." /\ UNCHANGED gsi
    /\ last' = Step("other")
    /\ UNCHANGED <<appState, user, sessionVars, googleClientId, showClientConfig, timers,
                   adminVars, userDb, serviceVars, calls, issued, returned, drafted>>

\* App.tsx:287-288  a click on the rendered Google button; the response comes later
GoogleSignIn ==
    /\ Ready
    /\ appState = "LOGIN"
    /\ Truthy(googleClientId) /\ gsi.initialized
    /\ gsi' = [gsi EXCEPT !.pending = @ + 1]
    /\ last' = Step("other")
    /\ UNCHANGED <<appState, user, sessionVars, googleClientId, showClientConfig, loginError,
                   timers, adminVars, userDb, serviceVars, calls, issued, returned, drafted>>

\* App.tsx:118-132  decoded is the e-mail of the token, or NULL when jwtDecode throws
handleGoogleCredentialResponse(decoded) ==
    /\ Ready
    /\ gsi.pending > 0
    /\ gsi' = [gsi EXCEPT !.pending = @ - 1]
    /\ IF decoded /= NULL
       THEN /\ user' = decoded
            /\ appState' = "INPUT"
            /\ userDb' = updateUserActivity(userDb, decoded, 0)
            /\ UNCHANGED loginError
            /\ last' = Step("login")
       ELSE /\ loginError' = "Failed to sign in. Token invalid."
            /\ UNCHANGED <<user, appState, userDb>>
            /\ last' = Step("other")
    /\ UNCHANGED <<sessionVars, googleClientId, showClientConfig, timers,
                   adminVars, serviceVars, calls, issued, returned, drafted>>

\* App.tsx:136-143, the click (the button is rendered at 303-311)
handleDemoLogin ==
    /\ Ready
    /\ appState = "LOGIN"
    /\ ~Truthy(googleClientId)
    /\ timers' = timers + 1
    /\ last' = Step("other")
    /\ UNCHANGED <<appState, user, sessionVars, googleClientId, showClientConfig, loginError,
                   gsi, adminVars, userDb, serviceVars, calls, issued, returned, drafted>>

\* App.tsx:138-142, the timeout callback
DemoLoginTimeout ==
    /\ Ready
    /\ timers > 0
    /\ timers' = timers - 1
    /\ user' = MOCK_USER
    /\ appState' = "INPUT"
    /\ userDb' = updateUserActivity(userDb, MOCK_USER, 0)
    /\ last' = Step("login")
    /\ UNCHANGED <<sessionVars, googleClientId, showClientConfig, loginError, gsi,
                   adminVars, serviceVars, calls, issued, returned, drafted>>

\* App.tsx:159-168
handleLogout ==
    /\ Ready
    /\ SignOutButton
    /\ user' = NULL
    /\ appState' = "LOGIN"
    /\ scenes' = JsonArray(<<>>)
    /\ topic' = ""
    /\ customDialogue' = ""
    /\ storyDraft' = ""
    /\ duration' = Minute
    /\ allowVariations' = FALSE
    /\ drafted' = 0
    /\ last' = Step("logout")
    /\ UNCHANGED <<error, loginVars, adminVars, userDb, serviceVars, calls, issued, returned>>

-----------------------------------------------------------------------------
(* App.tsx:515-556, 598-615  the inputs of the two editable views *)

Editable(view) == view /\ ~isGenerating

SetTopic(v) ==
    /\ Ready
    /\ Editable(InputView)
    /\ topic' = v
    /\ last' = Step("other")
    /\ UNCHANGED <<appState, user, customDialogue, duration, storyDraft, scenes, error,
                   allowVariations, loginVars, adminVars, userDb, serviceVars, calls,
                   issued, returned, drafted>>

SetCustomDialogue(v) ==
    /\ Ready
    /\ Editable(InputView)
    /\ customDialogue' = v
    /\ last' = Step("other")
    /\ UNCHANGED <<appState, user, topic, duration, storyDraft, scenes, error,
                   allowVariations, loginVars, adminVars, userDb, serviceVars, calls,
                   issued, returned, drafted>>

SetDuration(v) ==
    /\ Ready
    /\ Editable(InputView)
    /\ duration' = v
    /\ last' = Step("other")
    /\ UNCHANGED <<appState, user, topic, customDialogue, storyDraft, scenes, error,
                   allowVariations, loginVars, adminVars, userDb, serviceVars, calls,
                   issued, returned, drafted>>

SetStoryDraft(v) ==
    /\ Ready
    /\ Editable(ReviewView)
    /\ storyDraft' = v
    /\ last' = Step("other")
    /\ UNCHANGED <<appState, user, topic, customDialogue, duration, scenes, error,
                   allowVariations, loginVars, adminVars, userDb, serviceVars, calls,
                   issued, returned, drafted>>

SetAllowVariations(v) ==
    /\ Ready
    /\ Editable(ReviewView)
    /\ allowVariations' = v
    /\ last' = Step("other")
    /\ UNCHANGED <<appState, user, topic, customDialogue, duration, storyDraft, scenes,
                   error, loginVars, adminVars, userDb, serviceVars, calls, issued,
                   returned, drafted>>

-----------------------------------------------------------------------------
(* App.tsx:170-216  the two generation requests *)

\* The arguments of one request and what the handler's closure holds (user);
\* before is history: the draft, the scene list and the error when it was
\* submitted.
Call(id, kind, text, dialogue, minutes, variations, sent) ==
    [id |-> id, kind |-> kind, user |-> user, text |-> text, customDialogue |-> dialogue,
     durationMinutes |-> minutes, allowVariations |-> variations,
     targetSceneCount |-> targetSceneCount(minutes),
     key |-> IF sent THEN getAiClient ELSE "", sent |-> sent,
     before |-> [storyDraft |-> storyDraft, scenes |-> scenes, error |-> error]]

\* App.tsx:174 and :198
safeDuration == IF duration <= 0 THEN Minute ELSE duration

SubmitTwice(call) ==
    /\ calls' = calls \cup {call, [call EXCEPT !.id = call.id + 1]}
    /\ issued' = issued + 2
    /\ aiClient' = IF call.sent THEN getAiClient ELSE aiClient
    /\ UNCHANGED API_KEY

\* geminiService.ts:27-32 and :69-74  the part of a service function that runs
\* before its await: without a key it throws, and no request is sent
Submit(call) ==
    /\ calls' = calls \cup {call}
    /\ issued' = issued + 1
    /\ aiClient' = IF call.sent THEN getAiClient ELSE aiClient
    /\ UNCHANGED API_KEY

\* App.tsx:182  setAppState after a draft
DraftSuccessStage == "STORY_REVIEW"

DraftFailureStaysGenerating == "GENERATING_STORY"

DraftFailureToLogin == "LOGIN"

\* App.tsx:187  setAppState in the catch of handleGenerateDraft
DraftFailureStage == "INPUT"

ScenesSuccessStaysInReview == "STORY_REVIEW"

\* App.tsx:209  setAppState after the scenes
ScenesSuccessStage == "RESULTS"

ScenesFailureBackToInput == "INPUT"

\* App.tsx:214  setAppState in the catch of handleGenerateScenes
ScenesFailureStage == "STORY_REVIEW"

ErrorKeptAtSubmit(previous) == previous

\* App.tsx:177 and :195  setError(null)
ErrorAtSubmit(previous) == NoError

DraftKeptWhenPresent(previous, draft) == IF previous = "" THEN draft ELSE previous

\* App.tsx:181  setStoryDraft(draft)
DraftAfter(previous, draft) == draft

ScenesAppended(previous, generatedScenes) ==
    IF previous.isArray /\ generatedScenes.isArray
    THEN JsonArray(previous.items \o generatedScenes.items)
    ELSE generatedScenes

\* App.tsx:202  setScenes(generatedScenes)
ScenesAfter(previous, generatedScenes) == generatedScenes

\* App.tsx:170-177  up to the await
handleGenerateDraft ==
    /\ IF Trim(topic) = ""
       THEN /\ last' = Step("ignored")
            /\ UNCHANGED <<appState, error, calls, issued, serviceVars>>
       ELSE /\ appState' = "GENERATING_STORY"
            /\ error' = ErrorAtSubmit(error)
            /\ Submit(Call(issued + 1, "draft", topic, customDialogue, safeDuration,
                           FALSE, Truthy(getApiKey)))
            /\ last' = Step("submitDraft")
    /\ UNCHANGED <<user, topic, customDialogue, duration, storyDraft, scenes,
                   allowVariations, loginVars, adminVars, userDb, returned, drafted>>

\* App.tsx:179-188  after the await
DraftContinuation(c, result) ==
    /\ calls' = calls \ {c}
    /\ IF result.ok
       THEN /\ storyDraft' = DraftAfter(storyDraft, result.value)
            /\ appState' = DraftSuccessStage
            /\ drafted' = c.targetSceneCount
            /\ UNCHANGED error
            /\ last' = Event("draftSettled", TRUE, result.value, JsonObject, <<>>)
       ELSE /\ error' = getFriendlyErrorMessage(result.message)
            /\ appState' = DraftFailureStage
            /\ UNCHANGED <<storyDraft, drafted>>
            /\ last' = Event("draftSettled", FALSE, "", JsonObject, result.message)
    /\ UNCHANGED <<user, topic, customDialogue, duration, scenes, allowVariations,
                   loginVars, adminVars, userDb, serviceVars, issued, returned>>

\* The endpoint answers a draft request.
SettleDraft(c, answer) ==
    /\ Ready
    /\ c \in calls /\ c.kind = "draft" /\ c.sent
    /\ DraftContinuation(c, DraftResult(answer))

\* App.tsx:191-198  up to the await
handleGenerateScenes ==
    /\ IF Trim(storyDraft) = ""
       THEN /\ last' = Step("ignored")
            /\ UNCHANGED <<appState, error, calls, issued, serviceVars>>
       ELSE /\ appState' = "GENERATING_SCENES"
            /\ error' = ErrorAtSubmit(error)
            /\ Submit(Call(issued + 1, "scenes", storyDraft, "", safeDuration,
                           allowVariations, Truthy(getApiKey)))
            /\ last' = Step("submitScenes")
    /\ UNCHANGED <<user, topic, customDialogue, duration, storyDraft, scenes,
                   allowVariations, loginVars, adminVars, userDb, returned, drafted>>

\* App.tsx:200-215  after the await
ScenesContinuation(c, result) ==
    /\ calls' = calls \ {c}
    /\ IF result.ok
       THEN /\ scenes' = ScenesAfter(scenes, result.value)
            /\ userDb' = IF c.user /= NULL
                         THEN updateUserActivity(userDb, c.user, LengthOf(result.value))
                         ELSE userDb
            /\ appState' = ScenesSuccessStage
            /\ returned' = returned \cup {result.value}
            /\ UNCHANGED error
            /\ last' = Event("scenesSettled", TRUE, "", result.value, <<>>)
       ELSE /\ error' = getFriendlyErrorMessage(result.message)
            /\ appState' = ScenesFailureStage
            /\ UNCHANGED <<scenes, userDb, returned>>
            /\ last' = Event("scenesSettled", FALSE, "", JsonObject, result.message)
    /\ UNCHANGED <<user, topic, customDialogue, duration, storyDraft, allowVariations,
                   loginVars, adminVars, serviceVars, issued, drafted>>

\* App.tsx:559-567  a click the button takes calls the handler
ClickGenerateDraft == Ready /\ DraftButton /\ handleGenerateDraft

\* App.tsx:626-634
ClickGenerateScenes == Ready /\ ScenesButton /\ handleGenerateScenes

\* The endpoint answers a scenes request.
SettleScenes(c, answer) ==
    /\ Ready
    /\ c \in calls /\ c.kind = "scenes" /\ c.sent
    /\ ScenesContinuation(c, ScenesResult(answer))

SettleUnsent(c) ==
    /\ c \in calls /\ ~c.sent
    /\ IF c.kind = "draft"
       THEN DraftContinuation(c, Thrown(MissingKeyMessage))
       ELSE ScenesContinuation(c, Thrown(MissingKeyMessage))

\* App.tsx:230-239  confirmed is what window.confirm returns
handleReset(confirmed) ==
    /\ Ready
    /\ appState = "RESULTS"
    /\ IF confirmed
       THEN /\ appState' = "INPUT"
            /\ topic' = ""
            /\ customDialogue' = ""
            /\ storyDraft' = ""
            /\ duration' = Minute
            /\ scenes' = JsonArray(<<>>)
            /\ drafted' = 0
            /\ last' = Step("reset")
       ELSE /\ UNCHANGED <<appState, topic, customDialogue, storyDraft, duration, scenes,
                           drafted>>
            /\ last' = Step("other")
    /\ UNCHANGED <<user, error, allowVariations, loginVars, adminVars, userDb, serviceVars,
                   calls, issued, returned>>

\* App.tsx:241-243, the button at :596
handleBackToInput ==
    /\ Ready
    /\ ReviewView
    /\ ButtonTakesClick(FALSE, isGenerating)
    /\ appState' = "INPUT"
    /\ last' = Step("back")
    /\ UNCHANGED <<user, sessionVars, loginVars, adminVars, userDb, serviceVars, calls,
                   issued, returned, drafted>>

-----------------------------------------------------------------------------
(* App.tsx:247-268, 333-341  the admin views *)

AdminAccessInHeader == appState = "LOGIN" \/ MainView

\* App.tsx:272, 333-341  the Admin Access button is part of the login view
AdminAccessButton == appState = "LOGIN"

\* App.tsx:335
AdminAccess ==
    /\ Ready
    /\ AdminAccessButton
    /\ appState' = "ADMIN_LOGIN"
    /\ last' = Step("other")
    /\ UNCHANGED <<user, sessionVars, loginVars, adminVars, userDb, serviceVars, calls,
                   issued, returned, drafted>>

\* App.tsx:355-358
SetAdminPassword(v) ==
    /\ Ready
    /\ appState = "ADMIN_LOGIN"
    /\ adminPassword' = v
    /\ last' = Step("other")
    /\ UNCHANGED <<appState, user, sessionVars, loginVars, adminError, userDb, serviceVars,
                   calls, issued, returned, drafted>>

CodeAcceptedWhenTyped(password) == password /= ""

\* App.tsx:249  adminPassword === 'Veo816209'
CodeAccepted(password) == password = AdminAccessCode

\* App.tsx:247-256
handleAdminLoginSubmit ==
    /\ Ready
    /\ appState = "ADMIN_LOGIN"
    /\ IF CodeAccepted(adminPassword)
       THEN /\ appState' = "ADMIN_DASHBOARD"
            /\ adminError' = ""
            /\ adminPassword' = ""
       ELSE /\ adminError' = "Invalid access code."
            /\ UNCHANGED <<appState, adminPassword>>
    /\ last' = Step("adminSubmit")
    /\ UNCHANGED <<user, sessionVars, loginVars, userDb, serviceVars, calls, issued,
                   returned, drafted>>

\* App.tsx:258-262
handleExitAdmin ==
    /\ Ready
    /\ appState \in {"ADMIN_LOGIN", "ADMIN_DASHBOARD"}
    /\ appState' = "LOGIN"
    /\ adminPassword' = ""
    /\ adminError' = ""
    /\ last' = Step("other")
    /\ UNCHANGED <<user, sessionVars, loginVars, userDb, serviceVars, calls, issued,
                   returned, drafted>>

\* App.tsx:264-268  i is the row clicked
handleDeleteUser(i, confirmed) ==
    /\ Ready
    /\ appState = "ADMIN_DASHBOARD"
    /\ i \in DOMAIN userDb
    /\ userDb' = IF confirmed
                 THEN SelectSeq(userDb, LAMBDA u : u.id /= userDb[i].id)
                 ELSE userDb
    /\ last' = Step("other")
    /\ UNCHANGED <<appState, user, sessionVars, loginVars, adminVars, serviceVars, calls,
                   issued, returned, drafted>>

-----------------------------------------------------------------------------
(* The generation pipeline of the signed-in user: demo sign-in and sign-out, *)
(* the two editable views, the two requests and their answers.              *)

DemoLogin == timers < MaxTimers /\ handleDemoLogin

GenerateDraft == issued < MaxCalls /\ ClickGenerateDraft

GenerateScenes == issued < MaxCalls /\ ClickGenerateScenes

Next ==
    \/ DemoLogin
    \/ DemoLoginTimeout
    \/ handleLogout
    \/ \E v \in Topics : SetTopic(v)
    \/ \E v \in Dialogues : SetCustomDialogue(v)
    \/ \E v \in Durations : SetDuration(v)
    \/ \E v \in DraftEdits : SetStoryDraft(v)
    \/ \E v \in BOOLEAN : SetAllowVariations(v)
    \/ GenerateDraft
    \/ GenerateScenes
    \/ \E c \in calls : SettleUnsent(c)
    \/ \E c \in calls, answer \in DraftAnswers : SettleDraft(c, answer)
    \/ \E c \in calls, answer \in ScenesAnswers : SettleScenes(c, answer)
    \/ \E confirmed \in BOOLEAN : handleReset(confirmed)
    \/ handleBackToInput

Spec == Init /\ [][Next]_vars

-----------------------------------------------------------------------------
(* Regeneration: the same handlers with one topic, one draft text and no    *)
(* other edits, so that four requests fit: a scenes request that settles    *)
(* while a scene list of an earlier request is on display.                  *)

MaxRegenCalls == 4

RegenInit == Init /\ API_KEY = "key-1"

RegenDraft == issued < MaxRegenCalls /\ ClickGenerateDraft

RegenScenes == issued < MaxRegenCalls /\ ClickGenerateScenes

RegenTopics == {"A lighthouse keeper finds a message in a bottle"}

RegenDraftAnswers == {Answer("story A")}

RegenScenesAnswers ==
    {Answer(<<"[", "{1,A}", "]">>), Answer(<<"[", "{1,A}", ",", "{2,B}", "]">>),
     Answer(<<"[", "{1e999,A}", "]">>),
     Reject(<<"The model is", "Overloaded", "503">>)}

RegenNext ==
    \/ DemoLogin
    \/ DemoLoginTimeout
    \/ handleLogout
    \/ \E v \in RegenTopics : SetTopic(v)
    \/ RegenDraft
    \/ RegenScenes
    \/ \E c \in calls, answer \in RegenDraftAnswers : SettleDraft(c, answer)
    \/ \E c \in calls, answer \in RegenScenesAnswers : SettleScenes(c, answer)
    \/ \E confirmed \in BOOLEAN : handleReset(confirmed)
    \/ handleBackToInput

RegenSpec == RegenInit /\ [][RegenNext]_vars

-----------------------------------------------------------------------------
(* Every view: sign-in by Google or by the demo button, the admin views,   *)
(* and the pipeline with one topic, one draft text and no other edits.     *)
(* Google sign-in initializes and signs in a user the activity store has   *)
(* no record of; the row the admin deletes is the last one.                *)

MaxAppCalls == 2
MaxDeletes  == 1

AppInit == Init /\ API_KEY = "key-1"

GoogleLogin == gsi.pending < MaxTimers /\ GoogleSignIn

AppDraft == issued < MaxAppCalls /\ ClickGenerateDraft

AppScenes == issued < MaxAppCalls /\ ClickGenerateScenes

DeleteUser(i, confirmed) ==
    Len(INITIAL_MOCK_DB) - Len(userDb) < MaxDeletes /\ handleDeleteUser(i, confirmed)

AppEmails == {"new.user@gmail.com"}

AppScenesAnswers == {Answer(<<"[", "{1,A}", "]">>)}

AppNext ==
    \/ ConfigureClientId
    \/ \E v \in ClientIds \ {""} : SetGoogleClientId(v)
    \/ GsiInitialize(TRUE)
    \/ GoogleLogin
    \/ \E decoded \in AppEmails \cup {NULL} : handleGoogleCredentialResponse(decoded)
    \/ DemoLogin
    \/ DemoLoginTimeout
    \/ handleLogout
    \/ \E v \in RegenTopics : SetTopic(v)
    \/ AppDraft
    \/ AppScenes
    \/ \E c \in calls, answer \in RegenDraftAnswers : SettleDraft(c, answer)
    \/ \E c \in calls, answer \in AppScenesAnswers : SettleScenes(c, answer)
    \/ AdminAccess
    \/ \E v \in Passwords : SetAdminPassword(v)
    \/ handleAdminLoginSubmit
    \/ handleExitAdmin
    \/ \E confirmed \in BOOLEAN : DeleteUser(Len(userDb), confirmed)

AppSpec == AppInit /\ [][AppNext]_vars

-----------------------------------------------------------------------------
(* The generation client and the classifier: one topic and no other edits,  *)
(* an endpoint that answers with any of a wide set of texts and errors, and *)
(* an environment whose API key can be set or removed between two requests. *)

MaxServiceCalls == 2

\* One word for each rule of the classifier, and one that no rule knows.
ServiceWords ==
    {"API Key is missing", "Quota", "403", "500", "Failed to fetch", "JSON", "SAFETY",
     "Something went wrong"}

ServiceMessages ==
    {<<w>> : w \in ServiceWords}
      \cup {<<v, w>> : v \in {"500", "JSON", "Something went wrong"}, w \in ServiceWords}

ServiceDraftAnswers ==
    {Answer(t) : t \in {"", "story A"}} \cup {Reject(m) : m \in ServiceMessages}

ServiceScenesTexts ==
    ScenesTexts \cup { <<"Quota", "exceeded", "for", "this", "model">>,
                       <<"[", "{1,A}", ",", "]">> }

ServiceScenesAnswers ==
    {Answer(t) : t \in ServiceScenesTexts} \cup {Reject(m) : m \in ServiceMessages}

\* geminiService.ts:23  process.env.API_KEY is read at every request, and the
\* environment may have changed since the one before.
SetApiKey(v) ==
    /\ ~MicrotaskPending
    /\ v /= API_KEY
    /\ API_KEY' = v
    /\ last' = Step("other")
    /\ UNCHANGED <<appState, user, sessionVars, loginVars, adminVars, userDb, aiClient,
                   calls, issued, returned, drafted>>

ServiceDraft == issued < MaxServiceCalls /\ ClickGenerateDraft

ServiceScenes == issued < MaxServiceCalls /\ ClickGenerateScenes

ServiceNext ==
    \/ DemoLogin
    \/ DemoLoginTimeout
    \/ handleLogout
    \/ \E v \in RegenTopics : SetTopic(v)
    \/ \E v \in ApiKeys : SetApiKey(v)
    \/ ServiceDraft
    \/ ServiceScenes
    \/ \E c \in calls : SettleUnsent(c)
    \/ \E c \in calls, answer \in ServiceDraftAnswers : SettleDraft(c, answer)
    \/ \E c \in calls, answer \in ServiceScenesAnswers : SettleScenes(c, answer)
    \/ \E confirmed \in BOOLEAN : handleReset(confirmed)
    \/ handleBackToInput

ServiceSpec == Init /\ [][ServiceNext]_vars

-----------------------------------------------------------------------------
(* Properties *)

\* The request in flight that was submitted last.
Newest(c) == c.id = issued

SettledNow(c, kind) ==
    /\ c.kind = kind
    /\ last'.op = (IF kind = "draft" THEN "draftSettled" ELSE "scenesSettled")
    /\ calls' = calls \ {c}

\* C1: a draft request that fails puts the stage back to INPUT with an error
\* set, and its failure changes none of draft, topic, dialogue and duration;
\* when it is the request the stage is waiting for, these are what they were
\* when it was submitted.
C1_FailedDraftReturnsToInput ==
    [][\A c \in calls :
         (SettledNow(c, "draft") /\ ~last'.ok) =>
            /\ appState' = "INPUT"
            /\ error' /= NoError
            /\ UNCHANGED <<storyDraft, topic, customDialogue, duration>>
            /\ (appState = "GENERATING_STORY" /\ Newest(c)) =>
                  /\ topic' = c.text
                  /\ customDialogue' = c.customDialogue
                  /\ duration' = c.durationMinutes
                  /\ storyDraft' = c.before.storyDraft]_vars

C1_Witness ==
    /\ last.op = "draftSettled" /\ ~last.ok
    /\ appState = "INPUT"
    /\ error.category = "Usage Limit Exceeded"
    /\ Trim(topic) /= "" /\ customDialogue /= "" /\ storyDraft = "edited story"

C3_AtMostOneInFlight == Cardinality(calls) <= 1

\* C4: a request that was in flight when its user signed out changes nothing
\* when it settles: stage, draft, scene list, error and activity record stay.
C4_SettleAfterLogoutChangesNothing ==
    [][\A c \in calls :
         (c.user /= NULL /\ user = NULL
            /\ (SettledNow(c, "draft") \/ SettledNow(c, "scenes"))) =>
            UNCHANGED <<appState, storyDraft, scenes, error, userDb>>]_vars

\* C5: right after a sign-out the stage is LOGIN and every session field is
\* cleared, the error included.
C5_LogoutClearsSession ==
    last.op = "logout" =>
        /\ appState = "LOGIN"
        /\ user = NULL
        /\ topic = "" /\ customDialogue = "" /\ storyDraft = ""
        /\ scenes = JsonArray(<<>>)
        /\ duration = Minute
        /\ allowVariations = FALSE
        /\ error = NoError

\* C6: right after a confirmed "new story" the stage is INPUT and every field
\* is cleared, the consistency mode and the error included.
C6_ResetClearsFields ==
    last.op = "reset" =>
        /\ appState = "INPUT"
        /\ topic = "" /\ customDialogue = "" /\ storyDraft = ""
        /\ scenes = JsonArray(<<>>)
        /\ duration = Minute
        /\ allowVariations = FALSE
        /\ error = NoError

\* C7: an accepted draft submit moves the stage to GENERATING_STORY, and a
\* draft request that returns a text moves it to STORY_REVIEW with the draft
\* equal to that text, whatever the draft was before.
C7_DraftSuccessSupersedes ==
    [][/\ last'.op = "submitDraft" => appState' = "GENERATING_STORY"
       /\ \A c \in calls :
            (SettledNow(c, "draft") /\ last'.ok) =>
               /\ appState' = "STORY_REVIEW"
               /\ storyDraft' = last'.text]_vars

C7_Witness ==
    /\ last.op = "draftSettled" /\ last.ok
    /\ issued = 2 /\ calls = {}
    /\ appState = "STORY_REVIEW"
    /\ storyDraft = "story A"
    /\ user /= NULL

\* C8: an accepted scenes submit moves the stage to GENERATING_SCENES, and a
\* scenes request that returns a list moves it to RESULTS with the scene list
\* equal to that list.
C8_ScenesSuccessShowsResults ==
    [][/\ last'.op = "submitScenes" => appState' = "GENERATING_SCENES"
       /\ \A c \in calls :
            (SettledNow(c, "scenes") /\ last'.ok /\ last'.value.isArray) =>
               /\ appState' = "RESULTS"
               /\ scenes' = last'.value]_vars

C8_Witness ==
    /\ last.op = "scenesSettled" /\ last.ok
    /\ appState = "RESULTS"
    /\ scenes = JsonArray(<<Scene(1, "A"), Scene(2, "A")>>)

\* C10: a request is submitted only from an idle stage: a draft request when
\* the stage is INPUT, a scenes request when it is STORY_REVIEW, none while
\* the stage is GENERATING_STORY or GENERATING_SCENES.
C10_RequestsOnlyFromIdleStage ==
    [][\A c \in calls' \ calls :
         /\ ~isGenerating
         /\ c.kind = "draft" => appState = "INPUT"
         /\ c.kind = "scenes" => appState = "STORY_REVIEW"]_vars

\* A second request submitted, from INPUT, while an earlier one is unsettled.
C10_Witness ==
    /\ last.op = "submitDraft"
    /\ Cardinality(calls) = 2
    /\ appState = "GENERATING_STORY"

\* C11: the step that accepts a draft or a scenes submit and enters the
\* generating stage leaves the error null, whatever it was before.
C11_SubmitClearsError ==
    last.op \in {"submitDraft", "submitScenes"} =>
        /\ isGenerating
        /\ error = NoError

\* A submit accepted while the error of an earlier failure was on display.
C11_Witness ==
    /\ last.op = "submitDraft"
    /\ appState = "GENERATING_STORY"
    /\ error = NoError
    /\ \E c \in calls : Newest(c) /\ c.before.error.category = "Service Unavailable"

\* C9: the scene list is empty or exactly what one successful scenes request
\* returned: never a part of it, never two results put together.
C9_SceneListIsOneResult ==
    scenes = JsonArray(<<>>) \/ scenes \in returned

\* The list of a later request replaced the list of an earlier one.
C9_Witness ==
    /\ last.op = "scenesSettled" /\ last.ok /\ issued = 4
    /\ Cardinality(returned) = 2
    /\ scenes = JsonArray(<<Scene(1, "A"), Scene(2, "B")>>)
    /\ appState = "RESULTS"

\* App.tsx:28-58  the condition of each rule of the classifier, in the order
\* the rules are listed; the last rule takes every message.
RuleMatches(rule, message) ==
    CASE rule = 1 -> Includes(message, "API Key is missing")
      [] rule = 2 -> Includes(message, "429") \/ LowerIncludes(message, "quota")
                     \/ LowerIncludes(message, "exhausted")
      [] rule = 3 -> Includes(message, "400") \/ Includes(message, "403")
                     \/ Includes(message, "API key not valid")
      [] rule = 4 -> Includes(message, "500") \/ Includes(message, "503")
                     \/ LowerIncludes(message, "overloaded")
      [] rule = 5 -> LowerIncludes(message, "fetch") \/ LowerIncludes(message, "network")
                     \/ LowerIncludes(message, "failed to connect")
      [] rule = 6 -> Includes(message, "JSON") \/ Includes(message, "SyntaxError")
                     \/ Includes(message, "Unexpected token")
      [] rule = 7 -> LowerIncludes(message, "safety") \/ LowerIncludes(message, "blocked")
                     \/ Includes(message, "candidate")
      [] OTHER    -> TRUE

\* missing credential, rate/quota, authentication, service unavailable,
\* network, malformed JSON, safety block, generic fallback
Categories ==
    << "Configuration Error", "Usage Limit Exceeded", "Authentication Error",
       "Service Unavailable", "Connection Error", "Data Processing Error",
       "Content Blocked", "An unexpected error occurred" >>

FirstMatching(message) ==
    CHOOSE rule \in DOMAIN Categories :
        /\ RuleMatches(rule, message)
        /\ \A earlier \in DOMAIN Categories : earlier < rule => ~RuleMatches(earlier, message)

Failed == last.op \in {"draftSettled", "scenesSettled"} /\ ~last.ok

\* C12: the error stored for a failure has exactly one of the eight
\* categories: that of the first rule, in the fixed order, that the failure's
\* message matches, also when later rules match it too.
C12_FirstMatchingRuleWins ==
    Failed =>
        /\ error.category = Categories[FirstMatching(last.message)]
        /\ Cardinality({r \in DOMAIN Categories : Categories[r] = error.category}) = 1

\* The message names a server error before the quota: rate limit all the same.
C12_Witness ==
    /\ Failed
    /\ last.message = <<"500", "Quota">>
    /\ error.category = "Usage Limit Exceeded"

\* The message of the SyntaxError JSON.parse throws.
IsSyntaxError(message) == Len(message) > 0 /\ message[1] = "Unexpected token"

\* C13: a scenes request whose answer is a text that is no JSON fails with the
\* data-processing category, whatever the text, and the stage is STORY_REVIEW.
C13_NonJsonIsDataProcessingError ==
    (last.op = "scenesSettled" /\ ~last.ok /\ IsSyntaxError(last.message)) =>
        /\ error.category = "Data Processing Error"
        /\ appState = "STORY_REVIEW"

\* C14: a request made while no API key is configured is not sent to the
\* endpoint; it fails with the missing-key error, which is shown as a
\* configuration error in the stage the request was submitted from.
C14_MissingKeyFailsBeforeSending ==
    [][/\ \A c \in calls' \ calls : ~Truthy(getApiKey) => ~c.sent /\ c.key = ""
       /\ \A c \in calls :
            (~c.sent /\ (SettledNow(c, "draft") \/ SettledNow(c, "scenes"))) =>
               /\ ~last'.ok
               /\ last'.message = MissingKeyMessage
               /\ error'.category = "Configuration Error"
               /\ appState' = (IF c.kind = "draft" THEN "INPUT" ELSE "STORY_REVIEW")]_vars

\* The key was removed after the draft: the scenes request fails unsent.
C14_Witness ==
    /\ last.op = "scenesSettled" /\ ~last.ok
    /\ last.message = MissingKeyMessage
    /\ API_KEY = ""
    /\ error.category = "Configuration Error"
    /\ appState = "STORY_REVIEW"
    /\ storyDraft = "story A"

\* C15: a scenes request asks for the target scene count of the draft request
\* that produced the draft it decomposes, whatever the user did in between.
C15_ScenesTargetMatchesDraft ==
    [][\A c \in calls' \ calls :
         c.kind = "scenes" => c.targetSceneCount = drafted]_vars

\* App.tsx:547  the largest duration the input offers
MaxMinutes == 60

\* C16: every request is made with the target scene count 6 * d of its
\* duration d >= 1 (6 for one minute), and that is the number of scenes the
\* scenes request asks for.
C16_TargetIsSixPerMinute ==
    /\ \A d \in 1..MaxMinutes : targetSceneCount(d * Minute) = 6 * d
    /\ \A c \in calls :
          \A d \in 1..MaxMinutes :
             c.durationMinutes = d * Minute => c.targetSceneCount = 6 * d

\* The lighthouse story of one minute: the scenes request asks for 6 scenes.
C16_Witness ==
    /\ last.op = "submitScenes"
    /\ topic = "A lighthouse keeper finds a message in a bottle"
    /\ \E c \in calls :
          c.kind = "scenes" /\ c.durationMinutes = Minute /\ c.targetSceneCount = 6

\* C17: the scene list stored by a successful scenes request has exactly the
\* target scene count of that request.
C17_StoredListHasTargetCount ==
    [][\A c \in calls :
         (SettledNow(c, "scenes") /\ last'.ok) =>
            LengthOf(scenes') = c.targetSceneCount]_vars

\* C18: a value a scenes request returned is an array of scenes: an answer
\* that is valid JSON of another shape is an error, never a returned value.
C18_ReturnedValuesAreSceneLists ==
    \A value \in returned : value.isArray

\* C19: an answer without text makes the draft request and the scenes
\* request throw their empty-result error instead of returning a value; the
\* failure puts the stage back, and a draft request that succeeds stores a
\* text that is not empty.
C19_EmptyAnswerFails ==
    /\ ~DraftResult(Answer("")).ok
    /\ DraftResult(Answer("")).message = <<"No story generated from Gemini.">>
    /\ ~ScenesResult(Answer(<<>>)).ok
    /\ ScenesResult(Answer(<<>>)).message = <<"No response generated from Gemini.">>
    /\ (last.op = "draftSettled" /\ last.message = <<"No story generated from Gemini.">>) =>
          ~last.ok /\ appState = "INPUT" /\ error /= NoError
    /\ (last.op = "scenesSettled"
          /\ last.message = <<"No response generated from Gemini.">>) =>
          ~last.ok /\ appState = "STORY_REVIEW" /\ error /= NoError
    /\ (last.op = "draftSettled" /\ last.ok) =>
          appState = "STORY_REVIEW" /\ storyDraft = last.text /\ storyDraft /= ""

C19_Witness ==
    /\ last.op = "draftSettled" /\ ~last.ok
    /\ last.message = <<"No story generated from Gemini.">>
    /\ appState = "INPUT"
    /\ error /= NoError
    /\ storyDraft = ""

\* C20: a scenes request that returns n scenes adds 1 to the generation count
\* and n to the scene count of the record of the signed-in user who made it;
\* one that fails changes neither.
C20_SuccessCountsOneGeneration ==
    [][\A c \in calls :
         (SettledNow(c, "scenes") /\ c.user = user /\ user /= NULL
            /\ (last'.ok => last'.value.isArray)) =>
            \A i \in DOMAIN userDb :
               userDb[i].email = user =>
                  /\ userDb'[i].storiesGenerated =
                        userDb[i].storiesGenerated + (IF last'.ok THEN 1 ELSE 0)
                  /\ userDb'[i].totalScenesGenerated =
                        userDb[i].totalScenesGenerated
                          + (IF last'.ok THEN Len(last'.value.items) ELSE 0)]_vars

Submitted == last.op \in {"submitDraft", "submitScenes"}

\* C21 as stated: every accepted submit sends exactly one request to the
\* endpoint, no other step sends one, and a failure is stored as one
\* classified message.
C21_EverySubmitCallsEndpointOnce ==
    [][/\ Submitted' => Cardinality({c \in calls' \ calls : c.sent}) = 1
       /\ ~Submitted' => calls' \subseteq calls /\ issued' = issued
       /\ \A c \in calls :
            ((SettledNow(c, "draft") \/ SettledNow(c, "scenes")) /\ ~last'.ok) =>
               error' = getFriendlyErrorMessage(last'.message)]_vars

\* C21: nothing is retried.  Every accepted submit makes exactly one request,
\* sent to the endpoint when an API key is configured and not sent at all
\* when none is; no other step makes a request, so after a failure there is
\* none until the next submit; a failure is stored as one classified message.
C21_NoAutomaticRetry ==
    [][/\ Submitted' =>
            /\ Cardinality(calls' \ calls) = 1
            /\ issued' = issued + 1
            /\ \A c \in calls' \ calls : c.sent <=> Truthy(getApiKey)
       /\ ~Submitted' => calls' \subseteq calls /\ issued' = issued
       /\ \A c \in calls :
            ((SettledNow(c, "draft") \/ SettledNow(c, "scenes")) /\ ~last'.ok) =>
               /\ error' = getFriendlyErrorMessage(last'.message)
               /\ \E r \in DOMAIN Categories : error'.category = Categories[r]]_vars

\* A request failed and none is in flight: nothing was sent in its place.
C21_Witness ==
    /\ Failed
    /\ last.message = <<"The model is", "Overloaded", "503">>
    /\ error.category = "Service Unavailable"
    /\ issued = 1 /\ calls = {}

\* C22: after a request has failed the page is still rendered and the stage
\* is an interactive one (INPUT after a draft request, STORY_REVIEW after a
\* scenes request) whose fields can be edited and whose submit button takes a
\* click as soon as its text is not blank; a request that succeeds, a
\* resubmitted one included, advances to STORY_REVIEW, resp. RESULTS.
C22_UsableAfterFailure ==
    [][\A c \in calls :
         /\ (SettledNow(c, "draft") /\ ~last'.ok) =>
               /\ appState' = "INPUT" /\ Ready'
               /\ Editable(InputView)'
               /\ (Trim(topic') /= "" /\ duration' >= Minute) => DraftButton'
         /\ (SettledNow(c, "scenes") /\ ~last'.ok) =>
               /\ appState' = "STORY_REVIEW" /\ Ready'
               /\ Editable(ReviewView)'
               /\ Trim(storyDraft') /= "" => ScenesButton'
         /\ (SettledNow(c, "draft") /\ last'.ok) => appState' = "STORY_REVIEW"
         /\ (SettledNow(c, "scenes") /\ last'.ok /\ last'.value.isArray) =>
               appState' = "RESULTS"]_vars

\* The draft request failed for the quota, and the user's next submit, made
\* with that error on display, was accepted.
C22_Witness ==
    /\ last.op = "submitDraft"
    /\ appState = "GENERATING_STORY"
    /\ user /= NULL
    /\ Cardinality(calls) = 1
    /\ \E c \in calls : c.sent /\ c.before.error.category = "Usage Limit Exceeded"

-----------------------------------------------------------------------------
(* The duration input: one topic, the numbers a user can leave in the       *)
(* number input (empty, negative, a fraction of a minute, one minute), and  *)
(* a user who signs out and in again while a request is unanswered.         *)

MaxInputCalls == 2

InputInit == Init /\ API_KEY = "key-1"

\* Number(e.target.value) of "-1", "", "0.5" and "1"
InputDurations == {0 - Minute, 0, Minute \div 2, Minute}

InputDraft == issued < MaxInputCalls /\ ClickGenerateDraft

InputScenes == issued < MaxInputCalls /\ ClickGenerateScenes

InputNext ==
    \/ DemoLogin
    \/ DemoLoginTimeout
    \/ handleLogout
    \/ \E v \in RegenTopics : SetTopic(v)
    \/ \E v \in InputDurations : SetDuration(v)
    \/ InputDraft
    \/ InputScenes
    \/ \E c \in calls, answer \in RegenDraftAnswers : SettleDraft(c, answer)
    \/ \E c \in calls, answer \in AppScenesAnswers : SettleScenes(c, answer)
    \/ handleBackToInput

InputSpec == InputInit /\ [][InputNext]_vars

-----------------------------------------------------------------------------
(* The environment: the API key is replaced by another one, or removed,     *)
(* between two requests of one page load.                                   *)

MaxEnvCalls == 2

\* the values process.env.API_KEY is given between two requests
EnvApiKeys == ApiKeys \cup {"key-2"}

EnvDraft == issued < MaxEnvCalls /\ ClickGenerateDraft

EnvScenes == issued < MaxEnvCalls /\ ClickGenerateScenes

EnvNext ==
    \/ DemoLogin
    \/ DemoLoginTimeout
    \/ \E v \in RegenTopics : SetTopic(v)
    \/ \E v \in EnvApiKeys : SetApiKey(v)
    \/ EnvDraft
    \/ EnvScenes
    \/ \E c \in calls : SettleUnsent(c)
    \/ \E c \in calls, answer \in RegenDraftAnswers : SettleDraft(c, answer)
    \/ \E c \in calls, answer \in AppScenesAnswers : SettleScenes(c, answer)
    \/ handleBackToInput

EnvSpec == Init /\ [][EnvNext]_vars

-----------------------------------------------------------------------------
(* The submit handlers themselves: components/Button is not among the       *)
(* sources, so here a click reaches the handler of a button that is shown   *)
(* and not loading whatever its disabled attribute says, with an empty or   *)
(* whitespace-only topic or draft among the texts.                          *)

MaxHandlerCalls == 2

HandlerInit == Init /\ API_KEY = "key-1"

HandlerTopics == Topics \cup {" \n "}

HandlerDraftEdits == DraftEdits \cup {" \n "}

\* response.text of the draft request: a story, or white space only
HandlerDraftAnswers == {Answer("story A"), Answer(" \n ")}

\* App.tsx:170-189 called from the button of :559-567
CallGenerateDraft ==
    /\ issued < MaxHandlerCalls
    /\ Ready
    /\ InputView /\ ButtonTakesClick(appState = "GENERATING_STORY", FALSE)
    /\ handleGenerateDraft

\* App.tsx:191-216 called from the button of :626-634
CallGenerateScenes ==
    /\ issued < MaxHandlerCalls
    /\ Ready
    /\ ReviewView /\ ButtonTakesClick(appState = "GENERATING_SCENES", FALSE)
    /\ handleGenerateScenes

HandlerNext ==
    \/ DemoLogin
    \/ DemoLoginTimeout
    \/ handleLogout
    \/ \E v \in HandlerTopics : SetTopic(v)
    \/ \E v \in HandlerDraftEdits : SetStoryDraft(v)
    \/ CallGenerateDraft
    \/ CallGenerateScenes
    \/ \E c \in calls, answer \in HandlerDraftAnswers : SettleDraft(c, answer)
    \/ \E c \in calls, answer \in AppScenesAnswers : SettleScenes(c, answer)
    \/ handleBackToInput

HandlerSpec == HandlerInit /\ [][HandlerNext]_vars

-----------------------------------------------------------------------------
\* C23: the admin views are reachable only from the signed-out login view:
\* every step that enters ADMIN_LOGIN starts in LOGIN with no user signed
\* in, and every step that enters ADMIN_DASHBOARD starts in ADMIN_LOGIN,
\* never in a view of the pipeline.
C23_AdminOnlyFromLoggedOut ==
    [][ /\ (appState' = "ADMIN_LOGIN" /\ appState /= "ADMIN_LOGIN")
            => (appState = "LOGIN" /\ user = NULL)
        /\ (appState' = "ADMIN_DASHBOARD" /\ appState /= "ADMIN_DASHBOARD")
            => appState = "ADMIN_LOGIN" ]_vars

\* the dashboard is open after a session in which a request was submitted
C23_Witness == appState = "ADMIN_DASHBOARD" /\ user = NULL /\ calls /= {}

-----------------------------------------------------------------------------
\* C24: every request that is sent authenticates with the value API_KEY has
\* in the environment when the request is made: after the key was replaced,
\* the next request uses the new key, not the one an earlier request read.
C24_CallUsesCurrentCredential ==
    [][\A c \in calls' \ calls : c.sent => c.key = API_KEY]_vars

-----------------------------------------------------------------------------
\* C25: every draft request and every scenes request is made with a duration
\* of at least one minute, whatever the user did before: a stored duration
\* of 0 or less is replaced by 1, and no request has a duration below 1.
C25_CallDurationAtLeastOne ==
    \A c \in calls : c.durationMinutes >= Minute

-----------------------------------------------------------------------------
\* C26: in strict mode (the request was made with allowVariations false) a
\* scene list that is accepted and shown as the results has the same
\* character_appearance in every one of its scenes.
C26_StrictListHasOneAppearance ==
    [][\A c \in calls \ calls' :
         (/\ c.kind = "scenes" /\ ~c.allowVariations
          /\ last'.op = "scenesSettled" /\ last'.ok
          /\ appState' = "RESULTS" /\ scenes'.isArray)
         => \A i, j \in DOMAIN scenes'.items :
               scenes'.items[i].character_appearance
                 = scenes'.items[j].character_appearance]_vars

-----------------------------------------------------------------------------
\* C27: writing the scene list the page holds as JSON, as the export does, and
\* parsing the text again gives a list equal to the one held: the same
\* scenes with the same fields in the same order.
C27_ExportRoundTrip ==
    scenes.isArray => JSONparse(JSONstringify(scenes)) = Returned(scenes)

-----------------------------------------------------------------------------
Blank(s) == s \in Whitespace

\* C28: a draft submit whose topic is empty or white space only, and a scenes
\* submit whose draft is empty or white space only, make no request and
\* change nothing (stage, error, draft and scene list stay as they are); so
\* every request made carries a text that is not blank.
C28_BlankSubmitDoesNothing ==
    /\ [](\A c \in calls : ~Blank(c.text))
    /\ [][ /\ Blank(topic) =>
               /\ \A c \in calls' \ calls : c.kind /= "draft"
               /\ appState' = "GENERATING_STORY" => appState = "GENERATING_STORY"
           /\ Blank(storyDraft) =>
               /\ \A c \in calls' \ calls : c.kind /= "scenes"
               /\ appState' = "GENERATING_SCENES" => appState = "GENERATING_SCENES"
           /\ last'.op = "ignored" =>
               UNCHANGED <<appState, user, sessionVars, loginVars, adminVars, userDb,
                           serviceVars, calls, issued, returned, drafted>> ]_vars

\* a submit with a topic of white space only was ignored
C28_Witness ==
    /\ last.op = "ignored"
    /\ appState = "INPUT"
    /\ topic = " \n "
    /\ calls = {}

-----------------------------------------------------------------------------
\* C29: a generating stage is left only when its request is answered or fails
\* or when the user signs out, and the stage that follows is the one of the
\* success (STORY_REVIEW after a draft, RESULTS after the scenes), the
\* interactive stage the request was submitted from, or LOGIN.
C29_GeneratingLeftBySettleOrLogout ==
    [][ /\ (appState = "GENERATING_STORY" /\ appState' /= appState) =>
            /\ appState' \in {"STORY_REVIEW", "INPUT", "LOGIN"}
            /\ last'.op \in {"draftSettled", "logout"}
        /\ (appState = "GENERATING_SCENES" /\ appState' /= appState) =>
            /\ appState' \in {"RESULTS", "STORY_REVIEW", "LOGIN"}
            /\ last'.op \in {"scenesSettled", "logout"} ]_vars

-----------------------------------------------------------------------------
\* C30: whenever one of the views of the pipeline is shown (INPUT,
\* GENERATING_STORY, STORY_REVIEW, GENERATING_SCENES, RESULTS) a user is
\* signed in.
C30_PipelineHasUser ==
    appState \in {"INPUT", "GENERATING_STORY", "STORY_REVIEW", "GENERATING_SCENES",
                  "RESULTS"} => user /= NULL

-----------------------------------------------------------------------------
\* C31: while an admin view is shown (ADMIN_LOGIN or ADMIN_DASHBOARD) the
\* stage is changed by the admin actions only, the submit of the access code
\* and the exit: no sign-in callback that was pending and no answer to a
\* generation request takes the page out of the admin views.
C31_AdminLeftByAdminActionsOnly ==
    [][(appState \in {"ADMIN_LOGIN", "ADMIN_DASHBOARD"} /\ appState' /= appState) =>
          /\ appState' \in {"ADMIN_DASHBOARD", "LOGIN"}
          /\ last'.op \notin {"login", "draftSettled", "scenesSettled"}]_vars

-----------------------------------------------------------------------------
\* C32: ADMIN_DASHBOARD is entered only by a submit of the correct access
\* code made in ADMIN_LOGIN; a submit of any other code leaves the stage
\* ADMIN_LOGIN, sets the admin error and leaves the activity store as it is.
C32_DashboardNeedsAccessCode ==
    [][ /\ (appState' = "ADMIN_DASHBOARD" /\ appState /= "ADMIN_DASHBOARD") =>
            /\ appState = "ADMIN_LOGIN"
            /\ adminPassword = AdminAccessCode
            /\ last'.op = "adminSubmit"
        /\ (last'.op = "adminSubmit" /\ appState = "ADMIN_LOGIN"
              /\ adminPassword /= AdminAccessCode) =>
            /\ appState' = "ADMIN_LOGIN"
            /\ adminError' = "Invalid access code."
            /\ userDb' = userDb ]_vars

\* a wrong code was submitted, by a visitor or after a session
C32_Witness ==
    /\ last.op = "adminSubmit"
    /\ appState = "ADMIN_LOGIN"
    /\ adminPassword = "letmein"
    /\ adminError = "Invalid access code."

-----------------------------------------------------------------------------
Ids(db) == {db[i].id : i \in DOMAIN db}

HasRecord(db, email) == \E i \in DOMAIN db : db[i].email = email

\* C33: the records of the activity store only become fewer, and only by a
\* confirmed delete on the dashboard, which removes the record of one id and
\* no other; no sign-in and no successful generation adds a record, so a
\* sign-in or a success of a user without a record changes nothing in it.
C33_StoreOnlyShrinks ==
    [][ /\ Ids(userDb') \subseteq Ids(userDb)
        /\ Len(userDb') <= Len(userDb)
        /\ Ids(userDb') /= Ids(userDb) =>
            /\ appState = "ADMIN_DASHBOARD"
            /\ \E i \in DOMAIN userDb :
                  userDb' = SelectSeq(userDb, LAMBDA u : u.id /= userDb[i].id)
        /\ (last'.op = "login" /\ ~HasRecord(userDb, user')) => userDb' = userDb
        /\ \A c \in calls \ calls' :
              (last'.op = "scenesSettled" /\ last'.ok /\ ~HasRecord(userDb, c.user))
              => userDb' = userDb ]_vars

\* the scenes of the demo user arrive after the record of that user was deleted
C33_Witness ==
    /\ last.op = "scenesSettled" /\ last.ok
    /\ appState = "RESULTS"
    /\ user = MOCK_USER
    /\ ~HasRecord(userDb, MOCK_USER)
    /\ Len(userDb) < Len(INITIAL_MOCK_DB)

-----------------------------------------------------------------------------
\* C34: Back to Inputs, clicked in the draft review, sets the stage to INPUT
\* and changes nothing else (topic, dialogue, duration, draft, scene list,
\* error and consistency mode stay as they are), and it cannot be clicked
\* while a request is unanswered.
C34_BackToInputsFrame ==
    [][last'.op = "back" =>
          /\ appState = "STORY_REVIEW"
          /\ appState' = "INPUT"
          /\ UNCHANGED <<topic, customDialogue, duration, storyDraft, scenes, error,
                         allowVariations>>
          /\ calls = {}]_vars

====
